---- MODULE Spec2Model ----
(***************************************************************************)
(* Model of wait_with_pump (src/src/webview2.rs): a thread polls an mpsc   *)
(* receiver and, while it is empty, pumps its Windows message queue with   *)
(* GetMessageA / TranslateMessage / DispatchMessageA.                      *)
(*                                                                         *)
(* The waiting thread is one process (pc).  Its environment is the other   *)
(* threads of the program: a producer holding the Sender, which sends one  *)
(* value and then "kicks" the loop with PostThreadMessage, and arbitrary   *)
(* code posting messages to the waiting thread's queue.  Senders can be    *)
(* dropped.  SpecNested adds a handler that itself runs wait_with_pump on  *)
(* a channel of its own while the outer call is inside DispatchMessageA.   *)
(***************************************************************************)
EXTENDS Integers, Sequences, FiniteSets, TLC

\* ---- bounds ----
MaxPosts == 3          \* messages posted by code other than the producer
MaxVal == 2            \* the producer's payload is drawn from 1..MaxVal

\* ---- program constants ----
RetFatal == -1         \* GetMessageA: error
RetQuit == 0           \* GetMessageA: WM_QUIT retrieved

Values == 1 .. MaxVal
\* GetLastError codes a failing GetMessageA can leave behind
\* (ERROR_INVALID_HANDLE, ERROR_INVALID_WINDOW_HANDLE)
ErrCodes == {6, 1400}
\* WM_APP: ignorable message, WM_CALLBACK: a message whose handler completes
\* the awaited operation and sends on the channel, WM_QUIT: termination
Kinds == {"WM_APP", "WM_CALLBACK", "WM_QUIT"}
\* the Sender of the producer thread and the one owned by the WM_CALLBACK handler
Senders == {"producer", "handler"}

VARIABLES
    pc,          \* position of the waiting thread in wait_with_pump
    msg,         \* the local MSG
    result,      \* the value returned by wait_with_pump
    chan,        \* contents of the mpsc channel
    queue,       \* the waiting thread's message queue
    qerr,        \* 0, or the error that makes GetMessageA fail
    prod,        \* position of the producer thread
    posts,       \* number of messages posted by other code
    log,         \* history: every message posted, in posting order
    sent,        \* history: every value sent, in sending order
    placed,      \* history: where the waiter was when the first value was sent
    kickId,      \* history: id of the producer's wake-up message, 0 before it
    txs,         \* the Senders of the channel that have not been dropped
    discPolls,   \* history: number of try_recv calls that found it disconnected
    ipc,         \* position of a nested wait_with_pump run by a handler
    imsg,        \* the nested call's local MSG
    iresult,     \* the value returned by the nested call
    ichan,       \* contents of the nested call's channel
    iprod,       \* position of the thread producing for the nested call
    idispatched, \* history: messages the nested call passed to DispatchMessageA
    chanAtCall,  \* history: channel contents when wait_with_pump was called
    nPoll,       \* history: number of try_recv calls
    retrieved,   \* history: GetMessageA returns, [ret, msg]
    translated,  \* history: messages passed to TranslateMessage
    dispatched   \* history: messages passed to DispatchMessageA

waiterVars == <<pc, msg, result, nPoll, retrieved, translated, dispatched, chanAtCall,
                discPolls>>
vars == <<pc, msg, result, chan, queue, qerr, prod, posts, log, sent, placed,
          kickId, chanAtCall, nPoll, retrieved, translated, dispatched, txs, discPolls,
          ipc, imsg, iresult, ichan, iprod, idispatched>>
innerVars == <<ipc, imsg, iresult, ichan, iprod, idispatched>>

\* MSG::default()
NoMsg == [id |-> 0, kind |-> "WM_NULL"]
NoResult == [tag |-> "None", val |-> 0]
NoPlace == [pc |-> "none", gets |-> 0, polls |-> 0]

\* Result<T> values
Ok(v) == [tag |-> "Ok", val |-> v]
TaskCanceled == [tag |-> "TaskCanceled", val |-> 0]
WindowsError(hr) == [tag |-> "WindowsError", val |-> hr]

\* HRESULT::from_thread(): HRESULT_FROM_WIN32(GetLastError()), that is
\* (err & 0xFFFF) | 0x80070000, written as the 32-bit two's complement value
from_thread(err) == IF err = 0 THEN 0 ELSE (err % 65536) - 2147024896

\* the value a WM_CALLBACK handler sends: the result of the operation the
\* message completes
CallbackVal(m) == 10 + m.id

Init ==
    /\ pc = "idle"
    /\ msg = NoMsg
    /\ result = NoResult
    /\ chan = <<>>
    /\ queue = <<>>
    /\ qerr = 0
    /\ prod = "idle"
    /\ posts = 0
    /\ log = <<>>
    /\ sent = <<>>
    /\ placed = NoPlace
    /\ kickId = 0
    /\ txs = Senders
    /\ discPolls = 0
    /\ ipc = "off"
    /\ imsg = NoMsg
    /\ iresult = NoResult
    /\ ichan = <<>>
    /\ iprod = "idle"
    /\ idispatched = <<>>
    /\ chanAtCall = <<>>
    /\ nPoll = 0
    /\ retrieved = <<>>
    /\ translated = <<>>
    /\ dispatched = <<>>

\* ---- the channel ----

\* Sender::send(v)
Send(v) ==
    /\ chan' = Append(chan, v)
    /\ sent' = Append(sent, v)
    /\ placed' = IF sent = <<>>
                 THEN [pc |-> pc, gets |-> Len(retrieved), polls |-> nPoll]
                 ELSE placed

\* Receiver::try_recv(): Ok with the oldest value, else Err(Disconnected) when
\* every Sender is dropped, else Err(Empty)
try_recv ==
    IF chan # <<>> THEN Ok(Head(chan))
    ELSE IF txs = {} THEN [tag |-> "Disconnected", val |-> 0]
    ELSE [tag |-> "Empty", val |-> 0]

\* ---- the message queue ----

\* PostMessage / PostThreadMessage: append to the thread's queue
PostMsg(kind) ==
    LET m == [id |-> Len(log) + 1, kind |-> kind] IN
    /\ queue' = Append(queue, m)
    /\ log' = Append(log, m)

\* return value of GetMessageA when it returns
GetMessageRet ==
    IF qerr # 0 THEN RetFatal
    ELSE IF Head(queue).kind = "WM_QUIT" THEN RetQuit
    ELSE 1

\* GetMessageA blocks while the queue is empty; the channel is invisible to it
GetMessageReady == qerr # 0 \/ queue # <<>>

\* ---- the waiting thread: wait_with_pump ----

\* variant: the loop retrieves a message before its first poll
CallGetFirst ==
    /\ pc = "idle"
    /\ pc' = "get"
    /\ msg' = NoMsg
    /\ chanAtCall' = chan
    /\ UNCHANGED <<innerVars, txs, discPolls, result, chan, queue, qerr, prod, posts, log, sent, placed,
                   kickId, nPoll, retrieved, translated, dispatched>>

Call ==
    /\ pc = "idle"
    /\ pc' = "poll"
    /\ msg' = NoMsg
    /\ chanAtCall' = chan
    /\ UNCHANGED <<innerVars, txs, discPolls, result, chan, queue, qerr, prod, posts, log, sent, placed,
                   kickId, nPoll, retrieved, translated, dispatched>>

\* variant: the channel is polled before the loop only
PollFirstOnly ==
    /\ pc = "poll"
    /\ nPoll' = nPoll + 1
    /\ discPolls' = IF try_recv.tag = "Disconnected" THEN discPolls + 1 ELSE discPolls
    /\ IF try_recv.tag = "Ok" /\ nPoll = 0
       THEN /\ result' = Ok(try_recv.val)
            /\ chan' = Tail(chan)
            /\ pc' = "done"
       ELSE /\ pc' = "get"
            /\ UNCHANGED <<result, chan>>
    /\ UNCHANGED <<innerVars, txs, msg, queue, qerr, prod, posts, log, sent, placed, kickId, chanAtCall,
                   retrieved, translated, dispatched>>

\* variant: the value is taken but the loop goes on
PollNoReturn ==
    /\ pc = "poll"
    /\ nPoll' = nPoll + 1
    /\ discPolls' = IF try_recv.tag = "Disconnected" THEN discPolls + 1 ELSE discPolls
    /\ IF try_recv.tag = "Ok"
       THEN /\ result' = Ok(try_recv.val)
            /\ chan' = Tail(chan)
            /\ pc' = "get"
       ELSE /\ pc' = "get"
            /\ UNCHANGED <<result, chan>>
    /\ UNCHANGED <<innerVars, txs, msg, queue, qerr, prod, posts, log, sent, placed, kickId, chanAtCall,
                   retrieved, translated, dispatched>>

\* variant: the loop gives up after two polls
PollTimeout ==
    /\ pc = "poll"
    /\ nPoll' = nPoll + 1
    /\ discPolls' = IF try_recv.tag = "Disconnected" THEN discPolls + 1 ELSE discPolls
    /\ IF try_recv.tag = "Ok"
       THEN /\ result' = Ok(try_recv.val)
            /\ chan' = Tail(chan)
            /\ pc' = "done"
       ELSE IF nPoll >= 2
       THEN /\ result' = TaskCanceled
            /\ pc' = "done"
            /\ UNCHANGED chan
       ELSE /\ pc' = "get"
            /\ UNCHANGED <<result, chan>>
    /\ UNCHANGED <<innerVars, txs, msg, queue, qerr, prod, posts, log, sent, placed, kickId, chanAtCall,
                   retrieved, translated, dispatched>>

\* variant: the poll drains the channel and keeps the newest value
PollDrain ==
    /\ pc = "poll"
    /\ nPoll' = nPoll + 1
    /\ discPolls' = IF try_recv.tag = "Disconnected" THEN discPolls + 1 ELSE discPolls
    /\ IF try_recv.tag = "Ok"
       THEN /\ result' = Ok(chan[Len(chan)])
            /\ chan' = <<>>
            /\ pc' = "done"
       ELSE /\ pc' = "get"
            /\ UNCHANGED <<result, chan>>
    /\ UNCHANGED <<innerVars, txs, msg, queue, qerr, prod, posts, log, sent, placed, kickId, chanAtCall,
                   retrieved, translated, dispatched>>

\* variant: a disconnected channel ends the wait
PollDisconnectReturns ==
    /\ pc = "poll"
    /\ nPoll' = nPoll + 1
    /\ discPolls' = IF try_recv.tag = "Disconnected" THEN discPolls + 1 ELSE discPolls
    /\ IF try_recv.tag = "Ok"
       THEN /\ result' = Ok(try_recv.val)
            /\ chan' = Tail(chan)
            /\ pc' = "done"
       ELSE IF try_recv.tag = "Disconnected"
       THEN /\ result' = TaskCanceled
            /\ pc' = "done"
            /\ UNCHANGED chan
       ELSE /\ pc' = "get"
            /\ UNCHANGED <<result, chan>>
    /\ UNCHANGED <<innerVars, txs, msg, queue, qerr, prod, posts, log, sent, placed, kickId, chanAtCall,
                   retrieved, translated, dispatched>>

Poll ==
    /\ pc = "poll"
    /\ nPoll' = nPoll + 1
    /\ discPolls' = IF try_recv.tag = "Disconnected" THEN discPolls + 1 ELSE discPolls
    /\ IF try_recv.tag = "Ok"
       THEN /\ result' = Ok(try_recv.val)
            /\ chan' = Tail(chan)
            /\ pc' = "done"
       ELSE /\ pc' = "get"
            /\ UNCHANGED <<result, chan>>
    /\ UNCHANGED <<innerVars, txs, msg, queue, qerr, prod, posts, log, sent, placed, kickId, chanAtCall,
                   retrieved, translated, dispatched>>

\* variant: no arm for 0, WM_QUIT is dispatched like any message
GetMessageQuitFallsThrough ==
    /\ pc = "get"
    /\ GetMessageReady
    /\ LET ret == GetMessageRet IN
       IF ret = RetFatal
       THEN /\ result' = WindowsError(from_thread(qerr))
            /\ pc' = "done"
            /\ retrieved' = Append(retrieved, [ret |-> ret, msg |-> msg])
            /\ UNCHANGED <<msg, queue>>
       ELSE /\ msg' = Head(queue)
            /\ queue' = Tail(queue)
            /\ retrieved' = Append(retrieved, [ret |-> ret, msg |-> Head(queue)])
            /\ pc' = "translate"
            /\ UNCHANGED result
    /\ UNCHANGED <<innerVars, txs, discPolls, chan, qerr, prod, posts, log, sent, placed, kickId, chanAtCall,
                   nPoll, translated, dispatched>>

\* variant: a failed retrieval is retried after another poll
GetMessageRetryFatal ==
    /\ pc = "get"
    /\ GetMessageReady
    /\ LET ret == GetMessageRet IN
       IF ret = RetFatal
       THEN /\ pc' = "poll"
            /\ retrieved' = Append(retrieved, [ret |-> ret, msg |-> msg])
            /\ UNCHANGED <<msg, queue, result>>
       ELSE /\ msg' = Head(queue)
            /\ queue' = Tail(queue)
            /\ retrieved' = Append(retrieved, [ret |-> ret, msg |-> Head(queue)])
            /\ IF ret = RetQuit
               THEN /\ result' = TaskCanceled
                    /\ pc' = "done"
               ELSE /\ pc' = "translate"
                    /\ UNCHANGED result
    /\ UNCHANGED <<innerVars, txs, discPolls, chan, qerr, prod, posts, log, sent, placed, kickId, chanAtCall,
                   nPoll, translated, dispatched>>

\* variant: the wait also wakes when the channel holds a value
GetMessageWakesOnChannel ==
    /\ pc = "get"
    /\ IF GetMessageReady
       THEN LET ret == GetMessageRet IN
            IF ret = RetFatal
            THEN /\ result' = WindowsError(from_thread(qerr))
                 /\ pc' = "done"
                 /\ retrieved' = Append(retrieved, [ret |-> ret, msg |-> msg])
                 /\ UNCHANGED <<msg, queue>>
            ELSE /\ msg' = Head(queue)
                 /\ queue' = Tail(queue)
                 /\ retrieved' = Append(retrieved, [ret |-> ret, msg |-> Head(queue)])
                 /\ IF ret = RetQuit
                    THEN /\ result' = TaskCanceled
                         /\ pc' = "done"
                    ELSE /\ pc' = "translate"
                         /\ UNCHANGED result
       ELSE /\ chan # <<>>
            /\ pc' = "poll"
            /\ UNCHANGED <<msg, queue, result, retrieved>>
    /\ UNCHANGED <<innerVars, txs, discPolls, chan, qerr, prod, posts, log, sent, placed, kickId, chanAtCall,
                   nPoll, translated, dispatched>>

GetMessage ==
    /\ pc = "get"
    /\ GetMessageReady
    /\ LET ret == GetMessageRet IN
       IF ret = RetFatal
       THEN /\ result' = WindowsError(from_thread(qerr))
            /\ pc' = "done"
            /\ retrieved' = Append(retrieved, [ret |-> ret, msg |-> msg])
            /\ UNCHANGED <<msg, queue>>
       ELSE /\ msg' = Head(queue)
            /\ queue' = Tail(queue)
            /\ retrieved' = Append(retrieved, [ret |-> ret, msg |-> Head(queue)])
            /\ IF ret = RetQuit
               THEN /\ result' = TaskCanceled
                    /\ pc' = "done"
               ELSE /\ pc' = "translate"
                    /\ UNCHANGED result
    /\ UNCHANGED <<innerVars, txs, discPolls, chan, qerr, prod, posts, log, sent, placed, kickId, chanAtCall,
                   nPoll, translated, dispatched>>

\* variant: the message is translated but never dispatched
TranslateMessageNoDispatch ==
    /\ pc = "translate"
    /\ translated' = Append(translated, msg)
    /\ pc' = "poll"
    /\ UNCHANGED <<innerVars, txs, discPolls, msg, result, chan, queue, qerr, prod, posts, log, sent, placed,
                   kickId, chanAtCall, nPoll, retrieved, dispatched>>

\* variant: the message is dispatched without being translated
TranslateMessageSkip ==
    /\ pc = "translate"
    /\ pc' = "dispatch"
    /\ UNCHANGED <<innerVars, txs, discPolls, msg, result, chan, queue, qerr, prod, posts, log, sent, placed,
                   kickId, chanAtCall, nPoll, retrieved, translated, dispatched>>

TranslateMessage ==
    /\ pc = "translate"
    /\ translated' = Append(translated, msg)
    /\ pc' = "dispatch"
    /\ UNCHANGED <<innerVars, txs, discPolls, msg, result, chan, queue, qerr, prod, posts, log, sent, placed,
                   kickId, chanAtCall, nPoll, retrieved, dispatched>>

\* variant: after a dispatch the loop goes straight back to the retrieval
DispatchMessageNoPoll ==
    /\ pc = "dispatch"
    /\ msg.kind # "WM_NESTED"
    /\ dispatched' = Append(dispatched, msg)
    /\ IF msg.kind = "WM_CALLBACK" /\ "handler" \in txs
       THEN Send(CallbackVal(msg))
       ELSE UNCHANGED <<chan, sent, placed>>
    /\ pc' = "get"
    /\ UNCHANGED <<innerVars, txs, discPolls, msg, result, queue, qerr, prod, posts, log, kickId, chanAtCall,
                   nPoll, retrieved, translated>>

\* DispatchMessageA runs the handler of msg on the waiting thread
DispatchMessage ==
    /\ pc = "dispatch"
    /\ msg.kind # "WM_NESTED"
    /\ dispatched' = Append(dispatched, msg)
    /\ IF msg.kind = "WM_CALLBACK" /\ "handler" \in txs
       THEN Send(CallbackVal(msg))
       ELSE UNCHANGED <<chan, sent, placed>>
    /\ pc' = "poll"
    /\ UNCHANGED <<innerVars, txs, discPolls, msg, result, queue, qerr, prod, posts, log, kickId, chanAtCall,
                   nPoll, retrieved, translated>>

Waiter == Call \/ Poll \/ GetMessage \/ TranslateMessage \/ DispatchMessage

\* ---- the producer thread ----

ProducerSend ==
    /\ prod = "idle"
    /\ "producer" \in txs
    /\ \E v \in Values : Send(v)
    /\ prod' = "sent"
    /\ UNCHANGED <<innerVars, txs, discPolls, pc, msg, result, queue, qerr, posts, log, kickId, chanAtCall,
                   nPoll, retrieved, translated, dispatched>>

\* the "kick": PostThreadMessage(WM_APP) after sending
ProducerKick ==
    /\ prod = "sent"
    /\ PostMsg("WM_APP")
    /\ kickId' = Len(log) + 1
    /\ prod' = "kicked"
    /\ UNCHANGED <<innerVars, txs, discPolls, pc, msg, result, chan, qerr, posts, sent, placed, chanAtCall,
                   nPoll, retrieved, translated, dispatched>>

\* ---- the rest of the program and the OS ----

Post ==
    /\ posts < MaxPosts
    /\ \E k \in Kinds : PostMsg(k)
    /\ posts' = posts + 1
    /\ UNCHANGED <<innerVars, txs, discPolls, pc, msg, result, chan, qerr, prod, sent, placed, kickId, chanAtCall,
                   nPoll, retrieved, translated, dispatched>>

\* a thread or a released handler drops its Sender
DropSender ==
    /\ \E t \in txs : txs' = txs \ {t}
    /\ UNCHANGED <<innerVars, pc, msg, result, chan, queue, qerr, prod, posts, log, sent, placed,
                   kickId, chanAtCall, nPoll, retrieved, translated, dispatched,
                   discPolls>>

\* the queue breaks: from now on GetMessageA returns -1
Fault ==
    /\ qerr = 0
    /\ \E e \in ErrCodes : qerr' = e
    /\ UNCHANGED <<innerVars, txs, discPolls, pc, msg, result, chan, queue, prod, posts, log, sent, placed,
                   kickId, chanAtCall, nPoll, retrieved, translated, dispatched>>

Next == Call \/ Poll \/ GetMessage \/ TranslateMessage \/ DispatchMessage
        \/ ProducerSend \/ ProducerKick \/ Post \/ Fault \/ DropSender

Spec == Init /\ [][Next]_vars

\* the waiting thread keeps running, and a producer that sent goes on to kick
FairSpec == Spec /\ WF_vars(Waiter) /\ WF_vars(ProducerKick)

\* ---- a handler that runs a nested wait_with_pump ----

\* WM_NESTED: a message whose handler waits, with wait_with_pump, for a value
\* on a channel of its own; one such message is posted at most
PostNested ==
    /\ posts < MaxPosts
    /\ \A i \in 1 .. Len(log) : log[i].kind # "WM_NESTED"
    /\ PostMsg("WM_NESTED")
    /\ posts' = posts + 1
    /\ UNCHANGED <<innerVars, pc, msg, result, chan, qerr, prod, sent, placed, kickId,
                   chanAtCall, nPoll, retrieved, translated, dispatched, txs, discPolls>>

\* DispatchMessageA enters the handler, which calls wait_with_pump
DispatchNested ==
    /\ pc = "dispatch"
    /\ msg.kind = "WM_NESTED"
    /\ dispatched' = Append(dispatched, msg)
    /\ pc' = "nested"
    /\ ipc' = "poll"
    /\ imsg' = NoMsg
    /\ UNCHANGED <<iresult, ichan, iprod, idispatched, msg, result, chan, queue, qerr,
                   prod, posts, log, sent, placed, kickId, chanAtCall, nPoll, retrieved,
                   translated, txs, discPolls>>

InnerPoll ==
    /\ ipc = "poll"
    /\ IF ichan # <<>>
       THEN /\ iresult' = Ok(Head(ichan))
            /\ ichan' = Tail(ichan)
            /\ ipc' = "done"
       ELSE /\ ipc' = "get"
            /\ UNCHANGED <<iresult, ichan>>
    /\ UNCHANGED <<imsg, iprod, idispatched, pc, queue, log>>
    /\ UNCHANGED <<msg, result, chan, qerr, prod, posts, sent, placed, kickId, chanAtCall,
                   nPoll, retrieved, translated, dispatched, txs, discPolls>>

InnerGetMessage ==
    /\ ipc = "get"
    /\ GetMessageReady
    /\ LET ret == GetMessageRet IN
       IF ret = RetFatal
       THEN /\ iresult' = WindowsError(from_thread(qerr))
            /\ ipc' = "done"
            /\ UNCHANGED <<imsg, queue>>
       ELSE /\ imsg' = Head(queue)
            /\ queue' = Tail(queue)
            /\ IF ret = RetQuit
               THEN /\ iresult' = TaskCanceled
                    /\ ipc' = "done"
               ELSE /\ ipc' = "translate"
                    /\ UNCHANGED iresult
    /\ UNCHANGED <<ichan, iprod, idispatched, pc, log>>
    /\ UNCHANGED <<msg, result, chan, qerr, prod, posts, sent, placed, kickId, chanAtCall,
                   nPoll, retrieved, translated, dispatched, txs, discPolls>>

InnerTranslateMessage ==
    /\ ipc = "translate"
    /\ ipc' = "dispatch"
    /\ UNCHANGED <<imsg, iresult, ichan, iprod, idispatched, pc, queue, log>>
    /\ UNCHANGED <<msg, result, chan, qerr, prod, posts, sent, placed, kickId, chanAtCall,
                   nPoll, retrieved, translated, dispatched, txs, discPolls>>

\* the nested loop dispatches whatever it retrieves, also the messages that
\* complete the operation the outer call waits for
InnerDispatchMessage ==
    /\ ipc = "dispatch"
    /\ idispatched' = Append(idispatched, imsg)
    /\ IF imsg.kind = "WM_CALLBACK" /\ "handler" \in txs
       THEN Send(CallbackVal(imsg))
       ELSE UNCHANGED <<chan, sent, placed>>
    /\ ipc' = "poll"
    /\ UNCHANGED <<imsg, iresult, ichan, iprod, pc, msg, result, queue, qerr, prod, posts,
                   log, kickId, chanAtCall, nPoll, retrieved, translated, dispatched, txs,
                   discPolls>>

\* variant: back from the handler the outer loop retrieves before it polls
NestedReturnNoPoll ==
    /\ pc = "nested"
    /\ ipc = "done"
    /\ pc' = "get"
    /\ ipc' = "off"
    /\ UNCHANGED <<imsg, iresult, ichan, iprod, idispatched, queue, log>>
    /\ UNCHANGED <<msg, result, chan, qerr, prod, posts, sent, placed, kickId, chanAtCall,
                   nPoll, retrieved, translated, dispatched, txs, discPolls>>

\* the nested call has returned: the handler and DispatchMessageA return and
\* the outer loop starts its next iteration
NestedReturn ==
    /\ pc = "nested"
    /\ ipc = "done"
    /\ pc' = "poll"
    /\ ipc' = "off"
    /\ UNCHANGED <<imsg, iresult, ichan, iprod, idispatched, queue, log>>
    /\ UNCHANGED <<msg, result, chan, qerr, prod, posts, sent, placed, kickId, chanAtCall,
                   nPoll, retrieved, translated, dispatched, txs, discPolls>>

\* the thread the nested call waits for: sends, then kicks; the handler hands
\* it the Sender when it starts waiting
InnerProducerSend ==
    /\ iprod = "idle"
    /\ pc = "nested"
    /\ \E v \in Values : ichan' = Append(ichan, v)
    /\ iprod' = "sent"
    /\ UNCHANGED <<ipc, imsg, iresult, idispatched, pc, queue, log>>
    /\ UNCHANGED <<msg, result, chan, qerr, prod, posts, sent, placed, kickId, chanAtCall,
                   nPoll, retrieved, translated, dispatched, txs, discPolls>>

InnerProducerKick ==
    /\ iprod = "sent"
    /\ PostMsg("WM_APP")
    /\ iprod' = "kicked"
    /\ UNCHANGED <<ipc, imsg, iresult, ichan, idispatched, pc>>
    /\ UNCHANGED <<msg, result, chan, qerr, prod, posts, sent, placed, kickId, chanAtCall,
                   nPoll, retrieved, translated, dispatched, txs, discPolls>>

Nested == DispatchNested \/ InnerPoll \/ InnerGetMessage \/ InnerTranslateMessage
          \/ InnerDispatchMessage \/ NestedReturn

\* the program with such a handler; its Senders are kept until the calls return
NextNested == Waiter \/ ProducerSend \/ ProducerKick \/ Post \/ Fault
              \/ PostNested \/ Nested \/ InnerProducerSend \/ InnerProducerKick

SpecNested == Init /\ [][NextNested]_vars

TypeOK ==
    /\ pc \in {"idle", "poll", "get", "translate", "dispatch", "done"}
    /\ prod \in {"idle", "sent", "kicked"}
    /\ result.tag \in {"None", "Ok", "TaskCanceled", "WindowsError"}
    /\ qerr \in {0} \cup ErrCodes
    /\ posts \in 0 .. MaxPosts

\* ---- helpers for the properties ----

\* result of the latest GetMessageA return, 1 when there was none
LastRet == IF retrieved = <<>> THEN 1 ELSE retrieved[Len(retrieved)].ret

\* some retrieval returned the termination or the fatal code
EndingRet == \E i \in 1 .. Len(retrieved) : retrieved[i].ret \in {RetQuit, RetFatal}

\* the producer's value is the only one sent, and it was sent before the
\* waiter returned
OneProducerValue == prod # "idle" /\ Len(sent) = 1 /\ placed.pc # "done"

\* ---- C1 ----

\* C1 as stated (and with a message queue that never fails): whenever the
\* producer has placed exactly one value and posted its wake-up message, a
\* finished wait_with_pump has returned Ok(value), not the cancellation.
C1_AsStated ==
    (pc = "done" /\ prod = "kicked" /\ OneProducerValue /\ qerr = 0)
    => (result = Ok(sent[1]) /\ result # TaskCanceled)

\* C1 (amended): once the producer has sent its value and posted the wake-up
\* message, wait_with_pump terminates; it never starts a retrieval beyond the
\* one that returns the wake-up message; and its outcome is Ok(value) unless a
\* retrieval returned 0 (termination) or -1 (fatal) first.
C1_EventualDelivery ==
    /\ (prod = "kicked") ~> (pc = "done")
    /\ [](prod = "kicked" /\ pc = "get" => Len(retrieved) < kickId)
    /\ []((pc = "done" /\ prod = "kicked" /\ OneProducerValue /\ ~EndingRet)
            => result = Ok(sent[1]))

\* the value was sent while the waiter was blocked in GetMessageA, and the
\* wake-up message was the one that got it out
C1_Witness ==
    /\ pc = "done" /\ prod = "kicked" /\ OneProducerValue /\ ~EndingRet
    /\ placed.pc = "get"
    /\ Len(retrieved) = kickId
    /\ result = Ok(sent[1])

\* ---- C2 ----

\* C2 as stated: a first value placed after retrieval k (k >= 1) returned and
\* before retrieval k+1 returns is what a finished wait_with_pump returned.
C2_AsStated ==
    (pc = "done" /\ placed.gets >= 1
        /\ placed.pc \in {"translate", "dispatch", "poll", "get"})
    => result = Ok(sent[1])

\* C2 (amended): a first value placed after retrieval k returned and before
\* the poll that follows it is returned as Ok(value) by that poll, with no
\* further retrieval.  A value placed after that poll, while retrieval k+1 is
\* pending, is returned by the poll after retrieval k+1 only if that retrieval
\* returns an ordinary message; if it returns 0 or -1 the call returns the
\* error and the value stays on the channel.
C2_NoLoss ==
    /\ (pc = "done" /\ placed.gets >= 1
          /\ placed.pc \in {"translate", "dispatch", "poll"})
       => /\ result = Ok(sent[1])
          /\ Len(retrieved) = placed.gets
          /\ nPoll = placed.polls + 1
    /\ (pc = "done" /\ placed.gets >= 1 /\ placed.pc = "get")
       => /\ Len(retrieved) = placed.gets + 1
          /\ \/ /\ result = Ok(sent[1])
                /\ nPoll = placed.polls + 1
                /\ LastRet \notin {RetQuit, RetFatal}
             \/ /\ LastRet \in {RetQuit, RetFatal}
                /\ result.tag \in {"TaskCanceled", "WindowsError"}
                /\ nPoll = placed.polls
                /\ chan = sent

\* a value placed by another thread between the dispatch of message k and the
\* next poll was returned
C2_Witness ==
    /\ pc = "done" /\ placed.gets >= 1 /\ placed.pc = "poll"
    /\ prod # "idle" /\ result = Ok(sent[1])

\* ---- C3 ----

\* C3: when the channel holds a value at the call, wait_with_pump returns
\* Ok(oldest value) on its first poll: no GetMessageA, no TranslateMessage and
\* no DispatchMessageA is ever performed, whatever the message queue holds.
C3_ImmediateDelivery ==
    chanAtCall # <<>>
    => /\ pc \in {"poll", "done"}
       /\ retrieved = <<>> /\ translated = <<>> /\ dispatched = <<>>
       /\ pc = "done" => (result = Ok(Head(chanAtCall)) /\ nPoll = 1)

\* returned the value although WM_QUIT was the next message in the queue
C3_Witness ==
    /\ pc = "done" /\ chanAtCall # <<>> /\ result = Ok(Head(chanAtCall))
    /\ queue # <<>> /\ Head(queue).kind = "WM_QUIT"

\* ---- C4 ----

\* C4: once GetMessageA has returned 0 the call is over with
\* Err(TaskCanceled): WM_QUIT is neither translated nor dispatched, and no
\* poll, retrieval, translation or dispatch follows.
C4_Cancellation ==
    /\ [](LastRet = RetQuit
            => /\ pc = "done" /\ result = TaskCanceled
               /\ retrieved[Len(retrieved)].msg.kind = "WM_QUIT"
               /\ Len(translated) = Len(retrieved) - 1
               /\ Len(dispatched) = Len(retrieved) - 1
               /\ \A i \in 1 .. Len(translated) : translated[i].kind # "WM_QUIT"
               /\ \A i \in 1 .. Len(dispatched) : dispatched[i].kind # "WM_QUIT")
    /\ [][LastRet = RetQuit => UNCHANGED waiterVars]_vars

\* cancelled with nothing ever sent, after one ordinary message
C4_Witness ==
    /\ LastRet = RetQuit /\ sent = <<>> /\ result = TaskCanceled
    /\ Len(dispatched) = 1

\* ---- C5 ----

\* C5 as stated: when Err(TaskCanceled) is returned no value had been placed
\* on the channel before the return.
C5_AsStated ==
    result = TaskCanceled => placed.pc \in {"none", "done"}

\* C5 (amended): Err(TaskCanceled) is returned only when the last poll found
\* the channel empty: a value on the channel at the return was placed after
\* that poll, while the terminating retrieval was pending, and it stays on the
\* channel.
C5_CancelOnlyAfterEmptyPoll ==
    result = TaskCanceled
    => /\ chan = sent
       /\ \/ placed.pc \in {"none", "done"}
          \/ /\ placed.pc = "get"
             /\ placed.gets = Len(retrieved) - 1
             /\ placed.polls = nPoll

\* cancelled while a value sent during the last retrieval is on the channel
C5_Witness ==
    /\ result = TaskCanceled /\ placed.pc = "get" /\ chan # <<>>

\* ---- C6 ----

\* C6: once GetMessageA has returned -1 the call is over with
\* Err(WindowsError) carrying the failure HRESULT of the thread's last error:
\* every poll made was made before a retrieval, the message is neither
\* translated nor dispatched, and no poll or retrieval follows, also when a
\* value is on the channel.
C6_FatalFailure ==
    /\ [](LastRet = RetFatal
            => /\ pc = "done"
               /\ result = WindowsError(from_thread(qerr)) /\ result.val < 0
               /\ nPoll = Len(retrieved)
               /\ Len(translated) = Len(retrieved) - 1
               /\ Len(dispatched) = Len(retrieved) - 1
               /\ chan = sent)
    /\ [][LastRet = RetFatal => UNCHANGED waiterVars]_vars

\* failed while a value was waiting on the channel
C6_Witness ==
    /\ LastRet = RetFatal /\ result.tag = "WindowsError" /\ chan # <<>>

\* ---- C7 ----

\* C7: the dispatched messages are, in order and without repetition, the
\* first messages posted to the queue, they are the messages the retrievals
\* returned, and at most the latest retrieved message is not dispatched; when
\* Err(TaskCanceled) is returned and no value was ever sent, every message
\* posted before WM_QUIT has been dispatched.
C7_DispatchOrder ==
    /\ Len(dispatched) <= Len(retrieved)
    /\ Len(dispatched) >= Len(retrieved) - 1
    /\ Len(dispatched) <= Len(log)
    /\ \A i \in 1 .. Len(dispatched) :
          /\ dispatched[i] = log[i]
          /\ dispatched[i] = retrieved[i].msg
          /\ dispatched[i] = translated[i]
    /\ (result = TaskCanceled /\ sent = <<>>)
       => /\ Len(dispatched) = Len(retrieved) - 1
          /\ log[Len(retrieved)].kind = "WM_QUIT"
          /\ \A i \in 1 .. Len(retrieved) - 1 :
                log[i].kind # "WM_QUIT" /\ dispatched[i] = log[i]

\* two ordinary messages, then WM_QUIT
C7_Witness ==
    /\ result = TaskCanceled /\ sent = <<>> /\ Len(dispatched) = 2

\* ---- C8 ----

\* C8: a result exists exactly when the call has returned, it is one of the
\* three outcomes, Ok carries the value taken from the channel, the errors
\* come with a retrieval result of 0 and -1, and after the return the waiter
\* does nothing more.
C8_SingleOutcome ==
    /\ [](/\ (pc = "done") <=> (result # NoResult)
          /\ result.tag \in {"None", "Ok", "TaskCanceled", "WindowsError"}
          /\ result.tag = "Ok"
             => /\ sent # <<>> /\ result.val = sent[1] /\ chan = Tail(sent)
                /\ LastRet \notin {RetQuit, RetFatal}
          /\ result.tag = "TaskCanceled" => (LastRet = RetQuit /\ chan = sent)
          /\ result.tag = "WindowsError" => (LastRet = RetFatal /\ chan = sent)
          /\ result.tag = "None" => (chan = sent /\ ~EndingRet))
    /\ [][pc = "done" => UNCHANGED waiterVars]_vars

\* returned Ok and the environment went on: more messages and a second value
C8_Witness ==
    /\ pc = "done" /\ result.tag = "Ok" /\ queue # <<>> /\ chan # <<>>

\* ---- C9 ----

\* C9: a waiter inside GetMessageA with an empty, healthy queue cannot take
\* a step, although a value is on the channel: only a posted message (or a
\* queue failure) gets it out.
C9_MissingNudge ==
    (pc = "get" /\ queue = <<>> /\ qerr = 0 /\ chan # <<>>) => ~ENABLED Waiter

\* the producer sent while the waiter was blocked and has not kicked
C9_Witness ==
    /\ pc = "get" /\ queue = <<>> /\ qerr = 0 /\ chan # <<>>
    /\ prod = "sent" /\ placed.pc = "get"

\* ---- C10 ----

\* C10: as long as no value was sent and no retrieval returned 0 or -1 the
\* call has not returned, however many messages it has dispatched.
C10_NoTimeout ==
    (sent = <<>> /\ ~EndingRet) => (pc # "done" /\ result = NoResult)

\* every message the rest of the program posted was dispatched and the waiter
\* is back in the retrieval
C10_Witness ==
    /\ sent = <<>> /\ ~EndingRet /\ pc = "get"
    /\ Len(dispatched) = MaxPosts /\ nPoll = MaxPosts + 1

\* ---- C11 ----

\* C11: when the handler of a dispatched message has sent a value, that
\* dispatch is the last one of the call and its retrieval the last retrieval:
\* the waiter is at the poll that follows it or has returned from that poll
\* with Ok, carrying the handler's value when the channel held nothing older.
C11_SameThreadDelivery ==
    \A i \in 1 .. Len(dispatched) : \A k \in 1 .. Len(sent) :
        sent[k] = CallbackVal(dispatched[i])
        => /\ Len(dispatched) = i /\ Len(retrieved) = i
           /\ pc \in {"poll", "done"}
           /\ pc = "done" => /\ result.tag = "Ok"
                             /\ nPoll = i + 1
                             /\ k = 1 => result = Ok(sent[k])

\* no other thread sent or posted a wake-up: the handler's value was returned
\* with nothing left in the queue
C11_Witness ==
    /\ pc = "done" /\ prod = "idle" /\ queue = <<>>
    /\ dispatched # <<>> /\ Len(sent) = 1
    /\ sent[1] = CallbackVal(dispatched[Len(dispatched)])
    /\ result = Ok(sent[1])

\* ---- C12 ----

\* C12: polls and retrievals alternate, starting with a poll: a retrieval
\* returns only after a poll that found nothing, a poll is made only when
\* every earlier poll was followed by a retrieval; a value on the channel
\* while the waiter is in GetMessageA was sent after the last poll; and at the
\* poll, the translation and the dispatch the waiter can always take a step.
C12_Alternation ==
    /\ [](/\ pc = "idle" => (nPoll = 0 /\ retrieved = <<>>)
          /\ pc = "get" => nPoll = Len(retrieved) + 1
          /\ pc \in {"poll", "translate", "dispatch"} => nPoll = Len(retrieved)
          /\ pc = "done" => nPoll = Len(retrieved) + (IF result.tag = "Ok" THEN 1 ELSE 0)
          /\ (pc = "get" /\ chan # <<>>)
             => (placed.pc = "get" /\ placed.polls = nPoll /\ chan = sent)
          /\ pc \in {"idle", "poll", "translate", "dispatch"} => ENABLED Waiter)
    /\ [][retrieved' # retrieved
            => (pc = "get" /\ nPoll = Len(retrieved) + 1 /\ result = NoResult)]_vars
    /\ [][nPoll' # nPoll => (pc = "poll" /\ nPoll = Len(retrieved))]_vars

\* blocked in the third retrieval after three polls
C12_Witness ==
    /\ pc = "get" /\ queue = <<>> /\ qerr = 0
    /\ nPoll = 3 /\ Len(retrieved) = 2

\* ---- C13 ----

\* C13: the translated and the dispatched messages are, one for one and in
\* order, the messages of the retrievals that returned neither 0 nor -1; a
\* message is dispatched only after it was translated, every retrieved
\* ordinary message has been translated and dispatched when the next poll is
\* made, and a retrieval that returned 0 or -1 is the last step of the call.
C13_TranslateThenDispatch ==
    /\ [](/\ Len(dispatched) <= Len(translated)
          /\ Len(translated) <= Len(retrieved)
          /\ \A i \in 1 .. Len(translated) :
                /\ translated[i] = retrieved[i].msg
                /\ retrieved[i].ret \notin {RetQuit, RetFatal}
                /\ \A j \in 1 .. Len(translated) :
                      translated[i] = translated[j] => i = j
          /\ \A i \in 1 .. Len(dispatched) : dispatched[i] = translated[i]
          /\ \A i \in 1 .. Len(retrieved) :
                retrieved[i].ret \in {RetQuit, RetFatal}
                => /\ i = Len(retrieved) /\ pc = "done"
                   /\ Len(translated) = i - 1 /\ Len(dispatched) = i - 1
          /\ pc = "translate"
             => (Len(translated) = Len(retrieved) - 1 /\ Len(dispatched) = Len(translated))
          /\ pc = "dispatch"
             => (Len(translated) = Len(retrieved) /\ Len(dispatched) = Len(translated) - 1)
          /\ pc \in {"poll", "get"}
             => (Len(translated) = Len(retrieved) /\ Len(dispatched) = Len(retrieved)))
    /\ [][dispatched' # dispatched
            => /\ Len(translated) = Len(dispatched) + 1
               /\ dispatched' = Append(dispatched, translated[Len(translated)])]_vars
    /\ [][nPoll' # nPoll
            => (Len(translated) = Len(retrieved) /\ Len(dispatched) = Len(retrieved))]_vars

\* two messages translated and dispatched, the waiter is at the next poll
C13_Witness ==
    /\ pc = "poll" /\ Len(translated) = 2 /\ Len(dispatched) = 2 /\ nPoll = 2

\* ---- C16 ----

\* C16: the channel always holds the values sent, in sending order, less the
\* one the call returned; a poll that finds values returns the oldest and
\* removes only it; after the return nothing more is taken from the channel.
C16_OldestOnly ==
    /\ [](/\ result.tag # "Ok" => chan = sent
          /\ result.tag = "Ok"
             => (sent # <<>> /\ result.val = sent[1] /\ chan = Tail(sent)))
    /\ [][(nPoll' # nPoll /\ chan # <<>>)
            => (result' = Ok(Head(chan)) /\ chan' = Tail(chan) /\ pc' = "done")]_vars
    /\ [][pc = "done"
            => (result' = result /\ (chan' = chan \/ Len(chan') = Len(chan) + 1))]_vars

\* the producer's value and then a handler's value were on the channel at the
\* poll: the producer's was returned and the handler's is left
C16_Witness ==
    /\ pc = "done" /\ Len(sent) = 2 /\ dispatched # <<>>
    /\ sent[2] = CallbackVal(dispatched[Len(dispatched)])
    /\ result = Ok(sent[1]) /\ chan = <<sent[2]>>

\* ---- C15 ----

\* C15: a poll that finds no value sends the waiter into the retrieval and
\* produces no result, also when the channel is disconnected; once a poll has
\* found the channel disconnected no value exists or will exist, and the call
\* has not returned or has returned an error after a retrieval result of 0 or
\* -1.  A poll that finds a value returns it although every Sender is dropped.
C15_DisconnectedIsEmpty ==
    /\ [](discPolls >= 1
            => /\ txs = {} /\ sent = <<>>
               /\ result.tag \in {"None", "TaskCanceled", "WindowsError"}
               /\ pc = "done" => LastRet \in {RetQuit, RetFatal}
               /\ Len(retrieved) >= discPolls - 1)
    /\ [][(nPoll' # nPoll /\ chan = <<>>)
            => (pc' = "get" /\ result' = NoResult)]_vars
    /\ [][(nPoll' # nPoll /\ chan # <<>> /\ txs = {})
            => (pc' = "done" /\ result' = Ok(Head(chan)))]_vars

\* two polls found the channel disconnected, a message was dispatched in
\* between, and the call ended with the cancellation
C15_Witness ==
    /\ discPolls >= 2 /\ dispatched # <<>> /\ result = TaskCanceled

\* ---- C14 ----

\* C14: an outer call whose first value was sent while a handler it dispatched
\* was inside a nested wait_with_pump keeps that value on its channel during
\* the nested wait, leaves the handler only when the nested call has returned
\* and then polls: it returns Ok(value) from that poll, without a retrieval of
\* its own after the one that returned the handler's message.
C14_NestedWait ==
    /\ [](placed.pc = "nested"
            => /\ pc \in {"nested", "poll", "done"}
               /\ pc = "nested" => (chan = sent /\ result = NoResult)
               /\ pc = "done" => /\ result = Ok(sent[1])
                                 /\ nPoll = placed.polls + 1
                                 /\ Len(retrieved) = placed.gets)
    /\ [][(pc = "nested" /\ pc' # "nested") => (ipc = "done" /\ pc' = "poll")]_vars

\* the producer sent during the nested wait, the nested loop dispatched its
\* wake-up message, and the outer call returned the value with an empty queue
C14_Witness ==
    /\ pc = "done" /\ placed.pc = "nested" /\ prod = "kicked"
    /\ \E i \in 1 .. Len(idispatched) : idispatched[i].id = kickId
    /\ queue = <<>>
    /\ result = Ok(sent[1])
====
